---- MODULE Spec2Model ----
(***************************************************************************)
(* Model of the Days-of-Inventory dashboard script (src/app.py).           *)
(*                                                                         *)
(* Streamlit re-executes the whole script on every user interaction.  One  *)
(* action of the model is one such script run: the cached load, the       *)
(* DOI_Status column, and then the branch of the selected view mode.       *)
(* Numbers are integers; timestamps are integers on a linear time axis     *)
(* whose unit is one day, so Timedelta(days=30) is 30.  A formatted        *)
(* insight line is the record of the values the f-string interpolates.     *)
(***************************************************************************)
EXTENDS Integers, Sequences, FiniteSets, TLC

VARIABLES
    file,                   \* rows of days_of_inventory_200_products.csv
    cache,                  \* st.cache_data entry of load_data
    df,                     \* module-level frame after line 48
    view_mode,              \* sidebar radio
    today,                  \* pd.Timestamp.today() of the run
    err,                    \* exception that aborted the run, or "none"
    runs_left,              \* script runs the session still makes
    low_doi_df, overstock_df, expiring_df, high_cost_low_sales_df,
    top_buyer, top_buyer_val, risky_sample, expiring_sample,
    insight_lines, top_overstock,
    selected_warehouse, selected_buyer, selected_category,
    filtered_df, top_revenue, expiring_soon

vars == <<file, cache, df, view_mode, today, err, runs_left,
          low_doi_df, overstock_df, expiring_df, high_cost_low_sales_df,
          top_buyer, top_buyer_val, risky_sample, expiring_sample,
          insight_lines, top_overstock,
          selected_warehouse, selected_buyer, selected_category,
          filtered_df, top_revenue, expiring_soon>>

(***************************************************************************)
(* Bounds of the model.                                                    *)
(***************************************************************************)
MaxRows == 2          \* rows of a table
MaxGroupRows == 3     \* rows of a table in the group-by and sampling runs
MaxRuns == 2          \* script runs of a session
MaxTied == 3          \* rows with freely chosen sort keys in the top-N runs
MaxFill == 9          \* rows with pairwise distinct sort keys in the top-N runs
MaxClock == 1         \* latest wall-clock day of a run

(***************************************************************************)
(* Constants of the program.                                               *)
(***************************************************************************)
LowStatusBound == 10        \* get_doi_status: doi < 10
OverstockStatusBound == 180 \* get_doi_status: doi > 180
LowDoiCutoff == 10          \* low_doi_df
CostThreshold == 5000       \* high_cost_low_sales_df
SalesThreshold == 50        \* high_cost_low_sales_df
OverviewHorizon == 30       \* expiring_df
ExplorerHorizon == 90       \* expiring_soon
SampleK == 2                \* .sample(min(2, len(...)))
HeadN == 10                 \* .head(10)

None == "None"
All == "All"
NoError == "none"
ValueError == "ValueError"

Min(a, b) == IF a < b THEN a ELSE b

Range(s) == {s[i] : i \in 1..Len(s)}

(***************************************************************************)
(* load_data: the parsed CSV, read once and then served from the cache.    *)
(***************************************************************************)
NotLoaded == [loaded |-> FALSE, value |-> <<>>]

load_data == IF cache.loaded THEN cache.value ELSE file

(***************************************************************************)
(* get_doi_status (lines 37-46): one label per value, in input order.  The  *)
(* labels are written without the emoji the script puts before them.       *)
(***************************************************************************)
StatusOfLowInclusive(doi) ==
    IF doi <= LowStatusBound THEN "Low"
    ELSE IF doi > OverstockStatusBound THEN "Overstock"
    ELSE "Normal"

StatusOf(doi) ==
    IF doi < LowStatusBound THEN "Low"
    ELSE IF doi > OverstockStatusBound THEN "Overstock"
    ELSE "Normal"

RECURSIVE get_doi_status(_)
get_doi_status(dois) ==
    IF dois = <<>> THEN <<>>
    ELSE get_doi_status(SubSeq(dois, 1, Len(dois) - 1))
            \o <<StatusOf(dois[Len(dois)])>>

Column(t, col) == [i \in 1..Len(t) |-> t[i][col]]

(* df['DOI_Status'] = get_doi_status(df['DOI']) (line 48) *)
AddStatusColumnClobber(t) ==
    LET status == get_doi_status(Column(t, "DOI"))
    IN  [i \in 1..Len(t) |->
            [t[i] EXCEPT !.DOI = 0] @@ ("DOI_Status" :> status[i])]

AddStatusColumn(t) ==
    LET status == get_doi_status(Column(t, "DOI"))
    IN  [i \in 1..Len(t) |-> t[i] @@ ("DOI_Status" :> status[i])]

(***************************************************************************)
(* Boolean-mask indexing df[mask]: the rows whose mask entry is true, in   *)
(* table order, with all their columns.                                    *)
(***************************************************************************)
RECURSIVE BoolIndex(_, _)
BoolIndex(t, mask) ==
    IF t = <<>> THEN <<>>
    ELSE LET n == Len(t)
             front == BoolIndex(SubSeq(t, 1, n - 1), SubSeq(mask, 1, n - 1))
         IN  IF mask[n] THEN Append(front, t[n]) ELSE front

(* The mask read one position late (a misaligned index). *)
LowDoiFilterShifted(t) ==
    BoolIndex(t, [i \in 1..Len(t) |->
                    t[IF i = 1 THEN Len(t) ELSE i - 1].DOI < LowDoiCutoff])

(* line 52 *)
LowDoiFilter(t) ==
    BoolIndex(t, [i \in 1..Len(t) |-> t[i].DOI < LowDoiCutoff])

(* line 53 *)
OverstockFilter(t) ==
    BoolIndex(t, [i \in 1..Len(t) |-> t[i].OverstockInventoryValue > 0])

(* lines 54 and 204 *)
ExpiringFilter(t, now, horizon) ==
    BoolIndex(t, [i \in 1..Len(t) |-> t[i].ExpiryDate < now + horizon])

HighCostLowSalesFilterEither(t) ==
    BoolIndex(t, [i \in 1..Len(t) |->
                    t[i].TotalInventoryCost > CostThreshold
                    \/ t[i].Last12MoQtySold < SalesThreshold])

(* line 55 *)
HighCostLowSalesFilter(t) ==
    BoolIndex(t, [i \in 1..Len(t) |->
                    t[i].TotalInventoryCost > CostThreshold
                    /\ t[i].Last12MoQtySold < SalesThreshold])

(***************************************************************************)
(* groupby('Buyer')['OverstockInventoryValue'].sum(): one entry per Buyer  *)
(* present in the frame, in sorted key order.                              *)
(***************************************************************************)
Buyers == <<"Ann", "Bob">>          \* Buyer values of the file, sorted
Warehouses == <<"W1", "W2">>        \* Warehouse values of the file

RECURSIVE SumCol(_, _)
SumCol(t, col) ==
    IF t = <<>> THEN 0 ELSE t[1][col] + SumCol(Tail(t), col)

GroupSumCount(t, key, col) ==
    LET keys == SelectSeq(Buyers, LAMBDA b : b \in Range(Column(t, key)))
    IN  [g \in 1..Len(keys) |->
            [key |-> keys[g],
             value |-> Len(SelectSeq(t, LAMBDA r : r[key] = keys[g]))]]

GroupSum(t, key, col) ==
    LET keys == SelectSeq(Buyers, LAMBDA b : b \in Range(Column(t, key)))
    IN  [g \in 1..Len(keys) |->
            [key |-> keys[g],
             value |-> SumCol(SelectSeq(t, LAMBDA r : r[key] = keys[g]), col)]]

(* Series.max() *)
SeriesMax(ser) ==
    CHOOSE v \in {ser[g].value : g \in 1..Len(ser)} :
        \A g \in 1..Len(ser) : ser[g].value <= v

(* Series.idxmax(): the label of the first entry holding the maximum *)
IdxMax(ser) ==
    LET first == CHOOSE g \in 1..Len(ser) :
                    /\ ser[g].value = SeriesMax(ser)
                    /\ \A h \in 1..(g - 1) : ser[h].value # SeriesMax(ser)
    IN  ser[first].key

(* lines 66-67 *)
TopBuyer(over) ==
    IF over # <<>>
    THEN IdxMax(GroupSum(over, "Buyer", "OverstockInventoryValue"))
    ELSE None

TopBuyerVal(over) ==
    IF over # <<>>
    THEN SeriesMax(GroupSum(over, "Buyer", "OverstockInventoryValue"))
    ELSE 0

(***************************************************************************)
(* DataFrame.sample(n): n rows drawn without replacement, in the order     *)
(* drawn; ValueError when n exceeds the number of rows.                    *)
(***************************************************************************)
InjSeqs(n, m) ==
    {p \in [1..n -> 1..m] : \A i, j \in 1..n : i # j => p[i] # p[j]}

CanSample(t, n) == n <= Len(t)

Sample(t, n) == {[k \in 1..n |-> t[p[k]]] : p \in InjSeqs(n, Len(t))}

SampleSizeFixed(t) == SampleK

(* min(2, len(...)) of lines 68-69 *)
SampleSize(t) == Min(SampleK, Len(t))

(***************************************************************************)
(* sort_values(by=col, ascending=False): the default kind is quicksort,    *)
(* which does not fix the order of rows with equal keys; every descending  *)
(* arrangement of the rows is a possible result.                           *)
(***************************************************************************)
RECURSIVE DescOrders(_, _, _)
DescOrders(t, col, S) ==
    IF S = {} THEN {<<>>}
    ELSE LET m == CHOOSE v \in {t[i][col] : i \in S} :
                      \A i \in S : t[i][col] <= v
             tops == {i \in S : t[i][col] = m}
         IN  UNION {{<<i>> \o rest : rest \in DescOrders(t, col, S \ {i})} :
                        i \in tops}

RECURSIVE AscOrders(_, _, _)
AscOrders(t, col, S) ==
    IF S = {} THEN {<<>>}
    ELSE LET m == CHOOSE v \in {t[i][col] : i \in S} :
                      \A i \in S : t[i][col] >= v
             tops == {i \in S : t[i][col] = m}
         IN  UNION {{<<i>> \o rest : rest \in AscOrders(t, col, S \ {i})} :
                        i \in tops}

SortValuesAscending(t, col) ==
    {[k \in 1..Len(t) |-> t[p[k]]] : p \in AscOrders(t, col, 1..Len(t))}

SortValues(t, col) ==
    {[k \in 1..Len(t) |-> t[p[k]]] : p \in DescOrders(t, col, 1..Len(t))}

(* .head(10) *)
Head10(t) == SubSeq(t, 1, Min(HeadN, Len(t)))

(***************************************************************************)
(* The insight lines (lines 71-78).  Python truthiness decides the three   *)
(* conditional appends: None and "" are false, [] is false.                *)
(***************************************************************************)
Line(rule, count, buyer, val, skus) ==
    [rule |-> rule, count |-> count, buyer |-> buyer, val |-> val, skus |-> skus]

LowStockLine(n) == Line("low_stock", n, None, 0, <<>>)
OverstockLine(b, v) == Line("overstock_buyer", 0, b, v, <<>>)
HighCostLine(skus) == Line("high_cost_low_sales", 0, None, 0, skus)
ExpiringLine(skus) == Line("expiring_soon", 0, None, 0, skus)

TruthyStr(x) == x # None /\ x # ""
TruthyList(s) == s # <<>>

ComposeInsightsExpiringFirst(count, buyer, val, risky, expiring) ==
    (IF TruthyList(expiring) THEN <<ExpiringLine(expiring)>> ELSE <<>>)
    \o <<LowStockLine(count)>>
    \o (IF TruthyStr(buyer) THEN <<OverstockLine(buyer, val)>> ELSE <<>>)
    \o (IF TruthyList(risky) THEN <<HighCostLine(risky)>> ELSE <<>>)

ComposeInsightsAlways(count, buyer, val, risky, expiring) ==
    <<LowStockLine(count), OverstockLine(buyer, val),
      HighCostLine(risky), ExpiringLine(expiring)>>

ComposeInsights(count, buyer, val, risky, expiring) ==
    <<LowStockLine(count)>>
    \o (IF TruthyStr(buyer) THEN <<OverstockLine(buyer, val)>> ELSE <<>>)
    \o (IF TruthyList(risky) THEN <<HighCostLine(risky)>> ELSE <<>>)
    \o (IF TruthyList(expiring) THEN <<ExpiringLine(expiring)>> ELSE <<>>)

(***************************************************************************)
(* The Explorer's equality filters (lines 142-148).                        *)
(***************************************************************************)
(* list(df[col].unique()): the values of the column in order of appearance *)
RECURSIVE Unique(_)
Unique(s) ==
    IF s = <<>> THEN <<>>
    ELSE LET front == Unique(SubSeq(s, 1, Len(s) - 1))
         IN  IF s[Len(s)] \in Range(front) THEN front
             ELSE Append(front, s[Len(s)])

Options(t, col) == {All} \cup Range(Unique(Column(t, col)))

EqFilter(t, col, sel) ==
    IF sel # All
    THEN BoolIndex(t, [i \in 1..Len(t) |-> t[i][col] = sel])
    ELSE t

ExplorerFilterNoWarehouse(t, w, b, c) ==
    EqFilter(EqFilter(t, "Buyer", b), "Category", c)

ExplorerFilter(t, w, b, c) ==
    EqFilter(EqFilter(EqFilter(t, "Warehouse", w), "Buyer", b), "Category", c)

Clock == 0..MaxClock

(***************************************************************************)
(* One script run with view_mode = Overview (lines 34-131).  A value the   *)
(* script computes once and then reads is bound once, by a quantifier over *)
(* the singleton set that holds it.                                        *)
(***************************************************************************)
RunOverview ==
    /\ runs_left > 0
    /\ \E now \in Clock, d \in {AddStatusColumn(load_data)} :
       \E low \in {LowDoiFilter(d)},
          over \in {OverstockFilter(d)},
          expg \in {ExpiringFilter(d, now, OverviewHorizon)},
          hcls \in {HighCostLowSalesFilter(d)} :
       \E buyer \in {TopBuyer(over)}, val \in {TopBuyerVal(over)} :
           /\ runs_left' = runs_left - 1
           /\ cache' = [loaded |-> TRUE, value |-> load_data]
           /\ df' = d
           /\ view_mode' = "Overview"
           /\ today' = now
           /\ low_doi_df' = low
           /\ overstock_df' = over
           /\ expiring_df' = expg
           /\ high_cost_low_sales_df' = hcls
           /\ top_buyer' = buyer
           /\ top_buyer_val' = val
           /\ selected_warehouse' = All
           /\ selected_buyer' = All
           /\ selected_category' = All
           /\ filtered_df' = <<>>
           /\ top_revenue' = <<>>
           /\ expiring_soon' = <<>>
           /\ IF CanSample(hcls, SampleSize(hcls))
                 /\ CanSample(expg, SampleSize(expg))
              THEN \E rs \in Sample(hcls, SampleSize(hcls)),
                      es \in Sample(expg, SampleSize(expg)),
                      srt \in SortValues(d, "OverstockInventoryValue") :
                       /\ err' = NoError
                       /\ risky_sample' = Column(rs, "Product")
                       /\ expiring_sample' = Column(es, "Product")
                       /\ insight_lines' =
                             ComposeInsights(Len(low), buyer, val,
                                             Column(rs, "Product"),
                                             Column(es, "Product"))
                       /\ top_overstock' = Head10(srt)
              ELSE /\ err' = ValueError
                   /\ risky_sample' = <<>>
                   /\ expiring_sample' = <<>>
                   /\ insight_lines' = <<>>
                   /\ top_overstock' = <<>>
           /\ UNCHANGED file

(***************************************************************************)
(* One script run with view_mode = Visual Explorer (lines 34-48, 133-213). *)
(***************************************************************************)
RunExplorer ==
    /\ runs_left > 0
    /\ \E now \in Clock, d \in {AddStatusColumn(load_data)} :
       \E w \in Options(d, "Warehouse"),
          b \in Options(d, "Buyer"),
          c \in Options(d, "Category") :
       \E f \in {ExplorerFilter(d, w, b, c)} :
       \E srt \in SortValues(f, "12MoDollarsSold") :
           /\ runs_left' = runs_left - 1
           /\ cache' = [loaded |-> TRUE, value |-> load_data]
           /\ df' = d
           /\ view_mode' = "Explorer"
           /\ today' = now
           /\ err' = NoError
           /\ selected_warehouse' = w
           /\ selected_buyer' = b
           /\ selected_category' = c
           /\ filtered_df' = f
           /\ top_revenue' = Head10(srt)
           /\ expiring_soon' = ExpiringFilter(f, now, ExplorerHorizon)
           /\ low_doi_df' = <<>>
           /\ overstock_df' = <<>>
           /\ expiring_df' = <<>>
           /\ high_cost_low_sales_df' = <<>>
           /\ top_buyer' = None
           /\ top_buyer_val' = 0
           /\ risky_sample' = <<>>
           /\ expiring_sample' = <<>>
           /\ insight_lines' = <<>>
           /\ top_overstock' = <<>>
           /\ UNCHANGED file

Next == RunOverview \/ RunExplorer

(***************************************************************************)
(* The file: pd.read_csv(file, parse_dates=['ExpiryDate']) (line 32).  A   *)
(* row carries the twelve columns of the CSV and its RangeIndex label.     *)
(***************************************************************************)
Shape(p, w, b, c, doi, cost, sold, over, exp, rev) ==
    [Product |-> p, Warehouse |-> w, Buyer |-> b, Category |-> c,
     StockQty |-> 1, AvgLandedCost |-> 1, TotalInventoryCost |-> cost,
     Last12MoQtySold |-> sold, DOI |-> doi, OverstockInventoryValue |-> over,
     ExpiryDate |-> exp] @@ ("12MoDollarsSold" :> rev)

WithIndex(s) == [i \in 1..Len(s) |-> s[i] @@ ("index" :> (i - 1))]

Tables(shapes, n) ==
    {WithIndex(s) : s \in UNION {[1..k -> shapes] : k \in 0..n}}

(* DOI varies. *)
DOIValues == {-3, 0, 9, 10, 11, 180, 181}

ClassifyShapes ==
    {Shape("P1", "W1", "Ann", "Tools", doi, 1000, 100, 0, 365, 100) :
        doi \in DOIValues}

(* The inputs of the four insight rules vary independently around their   *)
(* thresholds.                                                             *)
InsightShapes ==
    {Shape("P1", "W1", "Ann", "Tools", doi, cost, 10, over, exp, 100 + doi + over) :
        doi \in {9, 10}, cost \in {5000, 6000}, over \in {0, 5}, exp \in {30, 31}}

(* Buyer and overstock value vary. *)
BuyerShapes ==
    {Shape("P1", "W1", b, "Tools", 50, 1000, 100, over, 365, over) :
        b \in Range(Buyers), over \in {0, 1, 2}}

(* Cost and quantity sold vary around the two thresholds. *)
CostShapes ==
    {Shape("P1", "W1", "Ann", "Tools", 50, cost, sold, 0, 365, cost + sold) :
        cost \in {4000, 5000, 5001, 6000}, sold \in {10, 49, 50}}

(* Rows to sample from: two products that qualify as high cost with low    *)
(* sales, one that expires soon, one that does neither.                    *)
SampleShapes ==
    { Shape("P1", "W1", "Ann", "Tools", 50, 6000, 10, 1, 365, 101),
      Shape("P2", "W1", "Ann", "Tools", 50, 6000, 10, 2, 365, 102),
      Shape("P1", "W1", "Ann", "Tools", 50, 1000, 100, 3, 29, 103),
      Shape("P2", "W1", "Ann", "Tools", 50, 1000, 100, 4, 365, 104) }

(* Warehouse, Buyer and expiry date vary, the date around the two horizons. *)
ExplorerShapes ==
    {Shape("P1", w, b, "Tools", 50, 1000, 100, 0, exp, 100 + exp) :
        w \in Range(Warehouses), b \in Range(Buyers), exp \in {29, 30, 89, 90}}

(* Warehouse and DOI vary. *)
SessionShapes ==
    {Shape("P1", w, "Ann", "Tools", doi, 1000, 100, doi, 365, 100 + doi) :
        w \in Range(Warehouses), doi \in {9, 200}}

(* Tables long enough for head(10) to cut: up to MaxTied rows whose sort   *)
(* keys are chosen freely, followed by up to MaxFill rows whose keys are   *)
(* pairwise distinct and larger.                                           *)
TiedShapes ==
    {Shape("P1", "W1", "Ann", "Tools", 50, 1000, 100, k, 365, k) : k \in {1, 2}}

FillShape(j) ==
    Shape("P2", "W1", "Ann", "Tools", 50, 1000, 100, 10 + j, 365, 10 + j)

TopNTables ==
    {WithIndex(s \o [j \in 1..f |-> FillShape(j)]) :
        s \in UNION {[1..k -> TiedShapes] : k \in 0..MaxTied}, f \in 0..MaxFill}

(* The session before the first script run; it makes `runs' script runs.  *)
(* What one run renders depends on the file and on that run's inputs only, *)
(* so the specifications about a single render give the session one run.   *)
InitWith(tables, runs) ==
    /\ file \in tables
    /\ runs_left = runs
    /\ cache = NotLoaded
    /\ df = <<>>
    /\ view_mode = "unset"
    /\ today = 0
    /\ err = NoError
    /\ low_doi_df = <<>>
    /\ overstock_df = <<>>
    /\ expiring_df = <<>>
    /\ high_cost_low_sales_df = <<>>
    /\ top_buyer = None
    /\ top_buyer_val = 0
    /\ risky_sample = <<>>
    /\ expiring_sample = <<>>
    /\ insight_lines = <<>>
    /\ top_overstock = <<>>
    /\ selected_warehouse = All
    /\ selected_buyer = All
    /\ selected_category = All
    /\ filtered_df = <<>>
    /\ top_revenue = <<>>
    /\ expiring_soon = <<>>

Init == InitWith(Tables(InsightShapes, MaxRows), 1)
InitClassify == InitWith(Tables(ClassifyShapes, MaxRows), 1)
InitBuyer == InitWith(Tables(BuyerShapes, MaxGroupRows), 1)
InitCost == InitWith(Tables(CostShapes, MaxRows), 1)
InitSample == InitWith(Tables(SampleShapes, MaxGroupRows), 1)
InitExplorer == InitWith(Tables(ExplorerShapes, MaxRows), 1)
InitSession == InitWith(Tables(SessionShapes, MaxRows), MaxRuns)
InitTopN == InitWith(TopNTables, 1)

Spec == Init /\ [][Next]_vars
SpecClassify == InitClassify /\ [][Next]_vars
SpecBuyer == InitBuyer /\ [][Next]_vars
SpecCost == InitCost /\ [][Next]_vars
SpecSample == InitSample /\ [][Next]_vars
SpecExplorer == InitExplorer /\ [][Next]_vars
SpecSession == InitSession /\ [][Next]_vars
SpecTopN == InitTopN /\ [][Next]_vars

(***************************************************************************)
(* Properties.  Their helper operators restate what is claimed directly    *)
(* over the state and do not use the operators of the model above.         *)
(***************************************************************************)
Rendered == view_mode # "unset"
InOverview == view_mode = "Overview"
InExplorer == view_mode = "Explorer"

Rows(t) == 1..Len(t)

(* s picks rows of t, each at most once, in table order; a row is known by *)
(* its index label, which rises along every table derived from the file    *)
IsSubTable(s, t) ==
    /\ \A k \in Rows(s) : \E i \in Rows(t) : s[k] = t[i]
    /\ \A k \in 1..(Len(s) - 1) : s[k].index < s[k + 1].index

(* exactly the rows of t that satisfy P, in table order *)
IsSelection(s, t, P(_)) ==
    /\ IsSubTable(s, t)
    /\ \A i \in Rows(t) : P(t[i]) <=> \E k \in Rows(s) : s[k].index = t[i].index

LineRules == <<"low_stock", "overstock_buyer", "high_cost_low_sales", "expiring_soon">>

HasLine(rule) == \E k \in Rows(insight_lines) : insight_lines[k].rule = rule

RuleRank(rule) == CHOOSE n \in Rows(LineRules) : LineRules[n] = rule

\* C1: every DOI value gets exactly one label, in input order: Low iff
\* v < 10, Overstock iff v > 180, Normal iff 10 <= v <= 180.
C1_Classifier ==
    Rendered =>
        /\ Len(df) = Len(file)
        /\ \A i \in Rows(df) :
              LET v == file[i].DOI
                  label == df[i].DOI_Status
              IN  /\ label \in {"Low", "Normal", "Overstock"}
                  /\ label = "Low" <=> v < 10
                  /\ label = "Overstock" <=> v > 180
                  /\ label = "Normal" <=> (10 <= v /\ v <= 180)

C1_Witness ==
    /\ Rendered
    /\ Len(df) = 2
    /\ df[1].DOI = 10 /\ df[1].DOI_Status = "Normal"
    /\ df[2].DOI = 181 /\ df[2].DOI_Status = "Overstock"

\* C2 as stated: in the Overview no insight line is emitted for any of the
\* four rules whose input is empty, the low-stock count included.
C2_Original ==
    InOverview =>
        /\ low_doi_df = <<>> => ~HasLine("low_stock")
        /\ overstock_df = <<>> => ~HasLine("overstock_buyer")
        /\ high_cost_low_sales_df = <<>> => ~HasLine("high_cost_low_sales")
        /\ expiring_df = <<>> => ~HasLine("expiring_soon")

\* C2 amended: the low-stock count line is emitted for every table (with
\* count 0 when no row has DOI < 10); the overstock-buyer, high-cost and
\* expiring lines are each absent whenever their input is empty.
C2_Amended ==
    InOverview =>
        /\ \E k \in Rows(insight_lines) :
              /\ insight_lines[k].rule = "low_stock"
              /\ insight_lines[k].count = Len(low_doi_df)
        /\ overstock_df = <<>> => ~HasLine("overstock_buyer")
        /\ high_cost_low_sales_df = <<>> => ~HasLine("high_cost_low_sales")
        /\ expiring_df = <<>> => ~HasLine("expiring_soon")

C2_Witness ==
    /\ InOverview
    /\ df # <<>>
    /\ low_doi_df = <<>> /\ overstock_df = <<>>
    /\ high_cost_low_sales_df = <<>> /\ expiring_df = <<>>
    /\ Len(insight_lines) = 1
    /\ insight_lines[1].rule = "low_stock" /\ insight_lines[1].count = 0

(* total overstock value held by buyer b, summed over the rows of df *)
RECURSIVE BuyerTotalUpTo(_, _)
BuyerTotalUpTo(b, n) ==
    IF n = 0 THEN 0
    ELSE BuyerTotalUpTo(b, n - 1)
         + (IF df[n].Buyer = b /\ df[n].OverstockInventoryValue > 0
            THEN df[n].OverstockInventoryValue ELSE 0)

BuyerTotal(b) == BuyerTotalUpTo(b, Len(df))

OverstockBuyers ==
    {df[i].Buyer : i \in {j \in Rows(df) : df[j].OverstockInventoryValue > 0}}

\* C3: top_buyer is None iff no row has overstock value > 0; otherwise
\* top_buyer_val is the sum of the overstock values of top_buyer's rows and
\* no buyer of the subset has a strictly greater sum.
C3_TopBuyer ==
    InOverview =>
        /\ top_buyer = None <=> OverstockBuyers = {}
        /\ OverstockBuyers # {} =>
              /\ top_buyer \in OverstockBuyers
              /\ top_buyer_val = BuyerTotal(top_buyer)
              /\ \A b \in OverstockBuyers : BuyerTotal(b) <= top_buyer_val

C3_Witness ==
    /\ InOverview
    /\ OverstockBuyers = {"Ann", "Bob"}
    /\ top_buyer = "Bob" /\ top_buyer_val = 3
    /\ BuyerTotal("Ann") = 2

(* the stable descending sort of t by col, by insertion *)
RECURSIVE StableDesc(_, _)
StableDesc(t, col) ==
    IF t = <<>> THEN <<>>
    ELSE LET n == Len(t)
             front == StableDesc(SubSeq(t, 1, n - 1), col)
             keep == Cardinality({k \in Rows(front) : front[k][col] >= t[n][col]})
         IN  SubSeq(front, 1, keep) \o <<t[n]>> \o SubSeq(front, keep + 1, Len(front))

StableTop(t, col) ==
    LET srt == StableDesc(t, col)
    IN  SubSeq(srt, 1, IF Len(srt) < 10 THEN Len(srt) ELSE 10)

(* top holds min(10, |t|) distinct rows of t, in descending order of col,  *)
(* and no row left out has a larger value than a row taken                 *)
IsTopTen(top, t, col) ==
    /\ Len(top) = (IF Len(t) < 10 THEN Len(t) ELSE 10)
    /\ \A k \in Rows(top) : \E i \in Rows(t) : top[k] = t[i]
    /\ \A k, l \in Rows(top) : k # l => top[k].index # top[l].index
    /\ \A k \in 1..(Len(top) - 1) : top[k][col] >= top[k + 1][col]
    /\ \A i \in Rows(t) :
          (\A k \in Rows(top) : top[k].index # t[i].index)
              => \A k \in Rows(top) : t[i][col] <= top[k][col]

\* C4 as stated: the top-10 tables are the first min(10, n) rows of the
\* stable descending sort, rows of equal value in original table order.
C4_Original ==
    /\ InOverview => top_overstock = StableTop(df, "OverstockInventoryValue")
    /\ InExplorer => top_revenue = StableTop(filtered_df, "12MoDollarsSold")

\* C4 amended: the top-10 tables hold min(10, n) distinct rows of the table
\* in descending order of the column, no row left out exceeding a row
\* taken; the order of rows of equal value is not fixed.
C4_Amended ==
    /\ InOverview => IsTopTen(top_overstock, df, "OverstockInventoryValue")
    /\ InExplorer => IsTopTen(top_revenue, filtered_df, "12MoDollarsSold")

C4_Witness ==
    /\ InOverview
    /\ Len(df) = 11
    /\ Len(top_overstock) = 10
    /\ top_overstock[1].OverstockInventoryValue > top_overstock[10].OverstockInventoryValue
    /\ \E i \in Rows(df) :
          /\ \A k \in Rows(top_overstock) : top_overstock[k].index # df[i].index
          /\ df[i].OverstockInventoryValue = top_overstock[10].OverstockInventoryValue

\* C5: the insight lines appear in the order low-stock, overstock buyer,
\* high-cost-low-sales, expiring-soon; no rule has two lines.
C5_Order ==
    InOverview =>
        /\ \A k \in Rows(insight_lines) : insight_lines[k].rule \in Range(LineRules)
        /\ \A k, l \in Rows(insight_lines) :
              k < l => RuleRank(insight_lines[k].rule) < RuleRank(insight_lines[l].rule)

C5_Witness ==
    /\ InOverview
    /\ Len(insight_lines) = 4
    /\ insight_lines[4].rule = "expiring_soon"

(* names lists the Product of Len(names) distinct rows of subset *)
IsSampleOf(names, subset) ==
    \E pick \in [Rows(names) -> Rows(subset)] :
        /\ \A k, l \in Rows(names) : k # l => pick[k] # pick[l]
        /\ \A k \in Rows(names) : names[k] = subset[pick[k]].Product

\* C6: sampling never errors, returns exactly min(2, subset size) products,
\* none iff the subset is empty, each the Product of a distinct subset row.
C6_Sampling ==
    InOverview =>
        /\ err = "none"
        /\ Len(risky_sample) =
              (IF Len(high_cost_low_sales_df) < 2 THEN Len(high_cost_low_sales_df) ELSE 2)
        /\ Len(expiring_sample) =
              (IF Len(expiring_df) < 2 THEN Len(expiring_df) ELSE 2)
        /\ risky_sample = <<>> <=> high_cost_low_sales_df = <<>>
        /\ expiring_sample = <<>> <=> expiring_df = <<>>
        /\ IsSampleOf(risky_sample, high_cost_low_sales_df)
        /\ IsSampleOf(expiring_sample, expiring_df)

C6_Witness ==
    /\ InOverview
    /\ Len(high_cost_low_sales_df) = 3
    /\ Len(risky_sample) = 2
    /\ risky_sample[1] = risky_sample[2]
    /\ expiring_sample = <<>>

Selected(r) ==
    /\ selected_warehouse # "All" => r.Warehouse = selected_warehouse
    /\ selected_buyer # "All" => r.Buyer = selected_buyer
    /\ selected_category # "All" => r.Category = selected_category

ExpiresWithin30(r) == r.ExpiryDate < today + 30
ExpiresWithin90(r) == r.ExpiryDate < today + 90

\* C7 as stated: every Explorer dataset holds only rows matching the chosen
\* filters, and its expiring-soon dataset equals the Overview's expiring
\* filter (30 days) run on the pre-filtered table for the same today.
C7_Original ==
    InExplorer =>
        /\ IsSelection(filtered_df, df, Selected)
        /\ \A k \in Rows(top_revenue) : Selected(top_revenue[k])
        /\ \A k \in Rows(expiring_soon) : Selected(expiring_soon[k])
        /\ IsSelection(expiring_soon, filtered_df, ExpiresWithin30)

\* C7 amended: every Explorer dataset holds only rows matching the chosen
\* filters; its expiring-soon dataset is the pre-filtered rows with
\* ExpiryDate < today + 90 days, which contains every row the Overview's
\* 30-day filter selects from the pre-filtered table.
C7_Amended ==
    InExplorer =>
        /\ IsSelection(filtered_df, df, Selected)
        /\ \A k \in Rows(top_revenue) : Selected(top_revenue[k])
        /\ \A k \in Rows(expiring_soon) : Selected(expiring_soon[k])
        /\ IsSelection(expiring_soon, filtered_df, ExpiresWithin90)
        /\ \A i \in Rows(filtered_df) :
              ExpiresWithin30(filtered_df[i]) =>
                  \E k \in Rows(expiring_soon) : expiring_soon[k] = filtered_df[i]

C7_Witness ==
    /\ InExplorer
    /\ selected_warehouse = "W1"
    /\ Len(df) = 2 /\ Len(filtered_df) = 1
    /\ Len(expiring_soon) = 1
    /\ ~ExpiresWithin30(expiring_soon[1])

IsHighCostLowSales(r) == r.TotalInventoryCost > 5000 /\ r.Last12MoQtySold < 50

\* C8: each of the Low-DOI, Overstock and High-cost-low-sales filters
\* returns its own output unchanged when applied to it, and that output is
\* a sub-collection of the rows of the table, in table order.
C8_Idempotent ==
    InOverview =>
        /\ LowDoiFilter(low_doi_df) = low_doi_df
        /\ OverstockFilter(overstock_df) = overstock_df
        /\ HighCostLowSalesFilter(high_cost_low_sales_df) = high_cost_low_sales_df
        /\ IsSubTable(low_doi_df, df)
        /\ IsSubTable(overstock_df, df)
        /\ IsSubTable(high_cost_low_sales_df, df)

C8_Witness ==
    /\ InOverview
    /\ Len(df) = 2
    /\ Len(low_doi_df) = 1
    /\ Len(overstock_df) = 1
    /\ Len(high_cost_low_sales_df) = 1
    /\ low_doi_df[1].index # overstock_df[1].index

\* C9: after any sequence of script runs the source table holds the rows
\* and column values of the initial load, the only added column is
\* DOI_Status, and every row's DOI_Status is the classifier of its DOI.
C9_SourceUnchanged ==
    Rendered =>
        /\ cache.loaded /\ cache.value = file
        /\ Len(df) = Len(file)
        /\ \A i \in Rows(df) :
              /\ DOMAIN df[i] = DOMAIN file[i] \cup {"DOI_Status"}
              /\ \A c \in DOMAIN file[i] : df[i][c] = file[i][c]
              /\ df[i].DOI_Status =
                    (IF df[i].DOI < 10 THEN "Low"
                     ELSE IF df[i].DOI > 180 THEN "Overstock" ELSE "Normal")

C9_Witness ==
    /\ InExplorer
    /\ runs_left = 0
    /\ selected_warehouse = "W2"
    /\ Len(df) = 2 /\ Len(filtered_df) = 1
    /\ df[1].DOI_Status = "Low" /\ df[2].DOI_Status = "Overstock"

\* C10: the High-cost-low-sales subset is exactly the rows with
\* TotalInventoryCost > 5000 and Last12MoQtySold < 50, both bounds strict.
C10_HighCostLowSales ==
    InOverview => IsSelection(high_cost_low_sales_df, df, IsHighCostLowSales)

C10_Witness ==
    /\ InOverview
    /\ Len(df) = 2
    /\ df[1].TotalInventoryCost = 6000 /\ df[1].Last12MoQtySold = 10
    /\ df[2].TotalInventoryCost = 4000 /\ df[2].Last12MoQtySold = 10
    /\ high_cost_low_sales_df = <<df[1]>>

C10_BoundaryWitness ==
    /\ InOverview
    /\ Len(df) = 2
    /\ df[1].TotalInventoryCost = 5000 /\ df[1].Last12MoQtySold = 10
    /\ df[2].TotalInventoryCost = 6000 /\ df[2].Last12MoQtySold = 50
    /\ high_cost_low_sales_df = <<>>

====
